---------------------------- MODULE Spec2Model ----------------------------
(***************************************************************************)
(* Access-control shell of the CRM client: the Permissions Resolver        *)
(* (src/src/contexts/PermissionsContext.tsx) and the route guards of the   *)
(* application router (src/unnamed/part_000).                              *)
(*                                                                         *)
(* The provider is a React function component.  Its state lives in four    *)
(* useState cells; every render takes a snapshot of them together with     *)
(* the value of useAuth(), and the effects of a render run afterwards with *)
(* that snapshot as their closure.  The setters called by one event        *)
(* handler, effect run or asynchronous continuation are batched and        *)
(* followed by one render, so every state of the model is a state as       *)
(* rendered: the cells are what the consumers of the context read.  The    *)
(* model keeps the cells and the dependency values the effects last ran    *)
(* with; the effects of the last render are due when these differ.         *)
(***************************************************************************)
EXTENDS Integers, Sequences, FiniteSets, Bags, TLC

(***************************************************************************)
(* Bounds of the model.                                                    *)
(***************************************************************************)
MaxPending == 2
MaxCalls == 2
MaxRouteLen == 3

(***************************************************************************)
(* Strings.  A route is a sequence of tokens; "/" is the one-character     *)
(* token the normalisation looks at, every other token stands for a run    *)
(* of characters without a slash.  A route is not the empty string.        *)
(***************************************************************************)
Slash == "/"
Tokens == {Slash, "dashboard", "settings"}
RouteStrings == UNION {[1..n -> Tokens] : n \in 1..MaxRouteLen}

RootRoute == <<Slash>>
DashboardRoute == <<Slash, "dashboard">>
SettingsRoute == <<Slash, "settings">>
AuthRoutePath == <<Slash, "auth">>
StickyRoute == <<Slash, "sticky-header-test">>
AccountsRoute == <<Slash, "accounts">>
UnknownRoute == <<Slash, "nope">>

\* The locations a navigation of the model starts at or goes to.
NavPaths ==
    {StickyRoute, AuthRoutePath, RootRoute, DashboardRoute, SettingsRoute,
     AccountsRoute, UnknownRoute}

(***************************************************************************)
(* Identity Source (useAuth): a nullable identity handle and a loading     *)
(* flag.  A handle is an object: two handles with the same id are          *)
(* different dependency values when they are different objects (ref).      *)
(***************************************************************************)
NoUser == [id |-> "none", ref |-> 0]
UserIds == {"A", "B"}

(***************************************************************************)
(* Permission Store results.                                               *)
(***************************************************************************)
RoleValues == {"admin", "manager", "user", "guest"}
RoleData == RoleValues \cup {""}

PermRec(i, r, a, m, u) ==
    [id |-> i, route |-> r, admin_access |-> a, manager_access |-> m, user_access |-> u]

PermLists ==
    { <<>>,
      <<PermRec(1, SettingsRoute, TRUE, FALSE, FALSE)>>,
      <<PermRec(1, DashboardRoute, FALSE, TRUE, FALSE),
        PermRec(2, SettingsRoute, FALSE, TRUE, TRUE)>>,
      <<PermRec(1, SettingsRoute, FALSE, FALSE, TRUE)>> }

\* One call's settlement: the promise is rejected, or it resolves to
\* {data, error}; data may be absent (null).
RoleResults ==
    [kind : {"error", "rejected"}, data : {""}]
        \cup [kind : {"ok"}, data : RoleData]
PermResults ==
    [kind : {"error", "rejected", "null"}, data : {<<>>}]
        \cup [kind : {"ok"}, data : PermLists]

VARIABLES
    user, authLoading,              \* useAuth()
    userRole, permissions, loading, hasFetched,   \* useState cells
    effectDeps,                     \* dependency values of the last effect run
    pending,                        \* fetches dispatched and not yet settled:
                                    \* a bag of the user ids they were issued for
    calls,                          \* fetches issued since the identity id last changed
    refreshed,                      \* refreshPermissions called since then
    lastDone,                       \* the settlement the last step processed
    refresh,                        \* the last refreshPermissions call
    attempted,                      \* a fetch issued for the current identity id has
                                    \* settled since that id became current
    path,                           \* the router's location
    moduleLoaded,                   \* the lazy module of the page at path has resolved
    probe                           \* the last hasPageAccess call and its result

resolverVars == <<userRole, permissions, loading, hasFetched>>
authVars == <<user, authLoading>>
historyVars == <<calls, refreshed, lastDone, refresh, attempted>>
navVars == <<path, moduleLoaded>>
coreVars == <<user, authLoading, userRole, permissions, loading, hasFetched,
              effectDeps, pending>>

vars == <<user, authLoading, userRole, permissions, loading, hasFetched,
          effectDeps, pending, calls, refreshed, lastDone, refresh, attempted,
          path, moduleLoaded, probe>>

(***************************************************************************)
(* The useState cells as one record, and the closure of a render.          *)
(***************************************************************************)
Cells ==
    [userRole |-> userRole, permissions |-> permissions,
     loading |-> loading, hasFetched |-> hasFetched]

Closure == [user |-> user, authLoading |-> authLoading, hasFetched |-> hasFetched]

\* The context value (useMemo at the end of the provider).
ExposedLoading == loading \/ authLoading

(***************************************************************************)
(* fetchPermissions, up to its await.  cl is the closure (the render's     *)
(* user and hasFetched), s the cells.  The result is the cells after the   *)
(* synchronous part and whether the two calls were issued.                 *)
(***************************************************************************)
ResetCells(s) ==
    [s EXCEPT !.userRole = "user", !.permissions = <<>>,
              !.loading = FALSE, !.hasFetched = FALSE]

\* fetchPermissions without the hasFetched short-circuit.
FetchPermissionsSyncNoSkip(cl, s) ==
    IF cl.user = NoUser
    THEN [st |-> ResetCells(s), dispatch |-> FALSE]
    ELSE [st |-> [s EXCEPT !.loading = TRUE], dispatch |-> TRUE]

FetchPermissionsSync(cl, s) ==
    IF cl.user = NoUser
    THEN [st |-> ResetCells(s), dispatch |-> FALSE]
    ELSE IF cl.hasFetched
         THEN [st |-> s, dispatch |-> FALSE]
         ELSE [st |-> [s EXCEPT !.loading = TRUE], dispatch |-> TRUE]

(***************************************************************************)
(* fetchPermissions, after the await: the two results are handled, or the  *)
(* catch block runs when Promise.all rejected; finally clears loading.     *)
(***************************************************************************)
HandleRole(rr) ==
    IF rr.kind = "error" THEN "user"
    ELSE IF rr.data = "" THEN "user" ELSE rr.data

HandlePermissions(pr) ==
    IF pr.kind = "error" THEN <<>>
    ELSE IF pr.kind = "null" THEN <<>> ELSE pr.data

Rejected(rr, pr) == rr.kind = "rejected" \/ pr.kind = "rejected"

\* As Settle, loading cleared at the end of the try block only.
SettleNoFinally(s, rr, pr) ==
    IF Rejected(rr, pr)
    THEN [s EXCEPT !.userRole = "user", !.permissions = <<>>]
    ELSE [s EXCEPT !.userRole = HandleRole(rr),
                   !.permissions = HandlePermissions(pr),
                   !.hasFetched = TRUE,
                   !.loading = FALSE]

Settle(s, rr, pr) ==
    IF Rejected(rr, pr)
    THEN [s EXCEPT !.userRole = "user", !.permissions = <<>>, !.loading = FALSE]
    ELSE [s EXCEPT !.userRole = HandleRole(rr),
                   !.permissions = HandlePermissions(pr),
                   !.hasFetched = TRUE,
                   !.loading = FALSE]

(***************************************************************************)
(* The two effects of the provider.                                        *)
(***************************************************************************)
\* useEffect(..., [user, authLoading, fetchPermissions])
FetchEffect(cl, s) ==
    IF cl.authLoading
    THEN [st |-> s, dispatch |-> FALSE]
    ELSE IF cl.user # NoUser
         THEN FetchPermissionsSync(cl, s)
         ELSE [st |-> ResetCells(s), dispatch |-> FALSE]

\* useEffect(() => setHasFetched(false), [user?.id])
ResetEffect(s) == [s EXCEPT !.hasFetched = FALSE]

\* fetchPermissions is a new function when user or hasFetched changed.
FetchPermissionsChanged ==
    effectDeps.user # user \/ effectDeps.hasFetched # hasFetched

FetchEffectDue ==
    \/ ~effectDeps.mounted
    \/ effectDeps.user # user
    \/ effectDeps.authLoading # authLoading
    \/ FetchPermissionsChanged

ResetEffectDue ==
    ~effectDeps.mounted \/ effectDeps.user.id # user.id

\* The last render left effects to run.
EffectsDue == FetchEffectDue \/ ResetEffectDue

\* Every effect has run: the provider waits for the next event.
Quiescent == ~EffectsDue

\* What the effects of the last render do to the cells, in the order they
\* are declared: the fetch effect, then the reset effect.
EffectsOutcome ==
    LET r1 == IF FetchEffectDue
              THEN FetchEffect(Closure, Cells)
              ELSE [st |-> Cells, dispatch |-> FALSE]
    IN [st |-> IF ResetEffectDue THEN ResetEffect(r1.st) ELSE r1.st,
        dispatch |-> r1.dispatch]

\* refreshPermissions of the last render: setHasFetched(false), then the
\* fetchPermissions that render created.
RefreshOutcome == FetchPermissionsSync(Closure, ResetEffect(Cells))

SetCells(s) ==
    /\ userRole' = s.userRole
    /\ permissions' = s.permissions
    /\ loading' = s.loading
    /\ hasFetched' = s.hasFetched

(***************************************************************************)
(* hasPageAccess(route), of the last render's permissions and userRole.    *)
(***************************************************************************)
\* As NormalizeRoute, the trailing slash kept.
NormalizeRouteNoStrip(route) ==
    IF route = RootRoute THEN DashboardRoute ELSE route

\* route === '/' ? '/dashboard' : route.replace(/\/$/, '')
NormalizeRoute(route) ==
    IF route = RootRoute THEN DashboardRoute
    ELSE IF Len(route) > 0 /\ route[Len(route)] = Slash
         THEN SubSeq(route, 1, Len(route) - 1)
         ELSE route

\* permissions.find(p => p.route === normalizedRoute): the index of the
\* first match, 0 when there is none.
FindPermission(perms, normalizedRoute) ==
    LET hits == {i \in 1..Len(perms) : perms[i].route = normalizedRoute}
    IN IF hits = {} THEN 0 ELSE CHOOSE i \in hits : \A j \in hits : i <= j

\* As RoleAccess, a role that is none of the three is let in.
RoleAccessDefaultOpen(permission, role) ==
    CASE role = "admin" -> permission.admin_access
      [] role = "manager" -> permission.manager_access
      [] role = "user" -> permission.user_access
      [] OTHER -> TRUE

\* As RoleAccess, a manager answered by admin_access.
RoleAccessManagerAsAdmin(permission, role) ==
    CASE role = "admin" -> permission.admin_access
      [] role = "manager" -> permission.admin_access
      [] OTHER -> permission.user_access

RoleAccess(permission, role) ==
    CASE role = "admin" -> permission.admin_access
      [] role = "manager" -> permission.manager_access
      [] OTHER -> permission.user_access

\* As HasPageAccess, a route without a record refused.
HasPageAccessDefaultDeny(route) ==
    LET i == FindPermission(permissions, NormalizeRoute(route))
    IN IF i = 0 THEN FALSE ELSE RoleAccess(permissions[i], userRole)

HasPageAccess(route) ==
    LET i == FindPermission(permissions, NormalizeRoute(route))
    IN IF i = 0 THEN TRUE ELSE RoleAccess(permissions[i], userRole)

(***************************************************************************)
(* The route table and the guards of the router.                           *)
(***************************************************************************)
Element(guard, page, to) == [guard |-> guard, page |-> page, to |-> to]

RouteElement(p) ==
    CASE p = StickyRoute -> Element("public", "StickyHeaderTest", <<>>)
      [] p = AuthRoutePath -> Element("auth", "Auth", <<>>)
      [] p = RootRoute -> Element("navigate", "none", DashboardRoute)
      [] p = DashboardRoute -> Element("protected", "Dashboard", <<>>)
      [] p = AccountsRoute -> Element("protected", "Accounts", <<>>)
      [] p = <<Slash, "contacts">> -> Element("protected", "Contacts", <<>>)
      [] p = <<Slash, "leads">> -> Element("protected", "Leads", <<>>)
      [] p = <<Slash, "meetings">> -> Element("protected", "Meetings", <<>>)
      [] p = <<Slash, "deals">> -> Element("protected", "DealsPage", <<>>)
      [] p = <<Slash, "notifications">> -> Element("protected", "Notifications", <<>>)
      [] p = <<Slash, "tasks">> -> Element("protected", "Tasks", <<>>)
      [] p = SettingsRoute -> Element("protected", "Settings", <<>>)
      [] OTHER -> Element("protected", "NotFound", <<>>)

\* What is on the screen: the navigation state, whether the frame
\* (FixedSidebarLayout) is mounted, whether a full-screen wait indicator
\* is shown, the page whose content is rendered, the target of a redirect
\* and whether the redirect replaces the history entry.
Screen(state, fullScreenWait, page, to) ==
    [state |-> state, frame |-> FALSE, fullScreenWait |-> fullScreenWait,
     page |-> page, to |-> to, replace |-> FALSE]

\* <Navigate to=... replace />
NavigateReplace(state, to) ==
    [Screen(state, FALSE, "none", to) EXCEPT !.replace = TRUE]

\* <Suspense fallback=...><Page /></Suspense> around a lazy page.
LazyPage(page, fullScreenFallback) ==
    IF moduleLoaded
    THEN Screen("ContentReady", FALSE, page, <<>>)
    ELSE Screen("ContentPending", fullScreenFallback, "none", <<>>)

\* location is the router's location the guard reads (useLocation).
PageAccessGuard(location, children) ==
    IF ExposedLoading THEN Screen("AccessPending", FALSE, "none", <<>>)
    ELSE IF ~HasPageAccess(location) THEN Screen("AccessDenied", FALSE, "none", <<>>)
    ELSE children

FixedSidebarLayout(children) == [children EXCEPT !.frame = TRUE]

ProtectedRouteNoUserCheck(location, page) ==
    IF authLoading THEN Screen("AuthPending", TRUE, "none", <<>>)
    ELSE FixedSidebarLayout(PageAccessGuard(location, LazyPage(page, FALSE)))

\* As ProtectedRoute, the Suspense boundary around the layout: a lazy page
\* still resolving shows the full-screen fallback in place of the frame.
ProtectedRouteSuspenseOutside(location, page) ==
    IF authLoading THEN Screen("AuthPending", TRUE, "none", <<>>)
    ELSE IF user = NoUser THEN NavigateReplace("LoginRedirect", AuthRoutePath)
    ELSE LET v == PageAccessGuard(location, LazyPage(page, TRUE))
         IN IF v.state = "ContentPending" THEN v ELSE FixedSidebarLayout(v)

ProtectedRoute(location, page) ==
    IF authLoading THEN Screen("AuthPending", TRUE, "none", <<>>)
    ELSE IF user = NoUser THEN NavigateReplace("LoginRedirect", AuthRoutePath)
    ELSE FixedSidebarLayout(PageAccessGuard(location, LazyPage(page, FALSE)))

\* As AuthRoute, the login page shown to a signed-in user too.
AuthRouteNoUserCheck(page) ==
    IF authLoading THEN Screen("AuthPending", TRUE, "none", <<>>)
    ELSE LazyPage(page, TRUE)

\* As AuthRoute, the test of the user inverted.
AuthRouteInverted(page) ==
    IF authLoading THEN Screen("AuthPending", TRUE, "none", <<>>)
    ELSE IF user = NoUser THEN NavigateReplace("Redirect", RootRoute)
    ELSE LazyPage(page, TRUE)

AuthRoute(page) ==
    IF authLoading THEN Screen("AuthPending", TRUE, "none", <<>>)
    ELSE IF user # NoUser THEN NavigateReplace("Redirect", RootRoute)
    ELSE LazyPage(page, TRUE)

\* <Routes> at a location.
ViewAt(location) ==
    LET e == RouteElement(location)
    IN CASE e.guard = "public" -> LazyPage(e.page, TRUE)
         [] e.guard = "auth" -> AuthRoute(e.page)
         [] e.guard = "navigate" -> NavigateReplace("Redirect", e.to)
         [] OTHER -> ProtectedRoute(location, e.page)

View == ViewAt(path)

PendingCount == BagCardinality(pending)
PendingFor(uid) == IF BagIn(uid, pending) THEN pending[uid] ELSE 0

(***************************************************************************)
(* History of a run, kept beside the program's state.                      *)
(***************************************************************************)
Bump(n) == IF n < MaxCalls THEN n + 1 ELSE n
NotDone == [done |-> FALSE]
NoRefresh ==
    [promise |-> "none", awaits |-> "none", dispatched |-> 0, completed |-> 0,
     qualifies |-> FALSE]

(***************************************************************************)
(* Initial state: the provider's first render, its effects not yet run.    *)
(***************************************************************************)
InitCore ==
    /\ user = NoUser
    /\ authLoading = TRUE
    /\ userRole = "user"
    /\ permissions = <<>>
    /\ loading = TRUE
    /\ hasFetched = FALSE
    /\ effectDeps = [mounted |-> FALSE, user |-> NoUser, authLoading |-> TRUE,
                     hasFetched |-> FALSE]
    /\ pending = EmptyBag

InitHistory ==
    /\ calls = 0
    /\ refreshed = FALSE
    /\ lastDone = NotDone
    /\ refresh = NoRefresh
    /\ attempted = FALSE

NoProbe == [asked |-> FALSE]

InitNav ==
    /\ path = RootRoute
    /\ moduleLoaded = FALSE

Init == InitCore /\ InitHistory /\ InitNav /\ probe = NoProbe

(***************************************************************************)
(* The effects of the last render run, and the provider renders again      *)
(* when they changed a cell.                                               *)
(***************************************************************************)
RunEffectsCore ==
    /\ EffectsDue
    /\ EffectsOutcome.dispatch => PendingCount < MaxPending
    /\ SetCells(EffectsOutcome.st)
    /\ pending' = IF EffectsOutcome.dispatch
                  THEN pending (+) SetToBag({user.id})
                  ELSE pending
    /\ effectDeps' = [mounted |-> TRUE, user |-> user, authLoading |-> authLoading,
                      hasFetched |-> hasFetched]
    /\ UNCHANGED <<authVars, navVars, probe>>

RunEffects ==
    /\ RunEffectsCore
    /\ calls' = IF EffectsOutcome.dispatch /\ ~refreshed THEN Bump(calls) ELSE calls
    /\ refresh' = IF EffectsOutcome.dispatch /\ refresh.promise # "none"
                  THEN [refresh EXCEPT !.dispatched = Bump(@)]
                  ELSE refresh
    /\ lastDone' = NotDone
    /\ UNCHANGED <<refreshed, attempted>>

(***************************************************************************)
(* Identity Source: useAuth() emits a new {user, loading}.  A new identity *)
(* id, the same id in a new handle, sign-out, or the loading flag alone.   *)
(***************************************************************************)
NextHandles ==
    {NoUser, user}
        \cup {[id |-> i, ref |-> 0] : i \in UserIds \ {user.id}}
        \cup (IF user = NoUser THEN {} ELSE {[id |-> user.id, ref |-> 1 - user.ref]})

AuthChangeCore(u, l) ==
    /\ Quiescent
    /\ PendingCount < MaxPending
    /\ <<u, l>> # <<user, authLoading>>
    /\ user' = u
    /\ authLoading' = l
    /\ UNCHANGED <<resolverVars, effectDeps, pending, navVars, probe>>

AuthChange(u, l) ==
    /\ AuthChangeCore(u, l)
    /\ calls' = IF u.id # user.id THEN 0 ELSE calls
    /\ refreshed' = IF u.id # user.id THEN FALSE ELSE refreshed
    /\ refresh' = NoRefresh
    /\ lastDone' = NotDone
    /\ attempted' = IF u.id # user.id THEN FALSE ELSE attempted

(***************************************************************************)
(* A dispatched fetch settles: Promise.all resolves with the two results   *)
(* or rejects, and the rest of fetchPermissions runs.                      *)
(***************************************************************************)
\* As FetchCompleteCore, the results of a fetch issued for another identity
\* than the current one dropped.
FetchCompleteCoreCurrentOnly(uid, rr, pr) ==
    /\ Quiescent
    /\ BagIn(uid, pending)
    /\ SetCells(IF uid = user.id THEN Settle(Cells, rr, pr) ELSE Cells)
    /\ pending' = pending (-) SetToBag({uid})
    /\ UNCHANGED <<authVars, effectDeps, navVars, probe>>

FetchCompleteCore(uid, rr, pr) ==
    /\ Quiescent
    /\ BagIn(uid, pending)
    /\ SetCells(Settle(Cells, rr, pr))
    /\ pending' = pending (-) SetToBag({uid})
    /\ UNCHANGED <<authVars, effectDeps, navVars, probe>>

\* The settled fetch is the one the refreshPermissions call awaits (aw), or
\* another one issued for the same user id.
AwaitChoices(uid) ==
    IF refresh.promise = "pending" /\ refresh.awaits = uid
    THEN (IF PendingFor(uid) = 1 THEN {TRUE} ELSE BOOLEAN)
    ELSE {FALSE}

FetchComplete(uid, rr, pr, aw) ==
    /\ FetchCompleteCore(uid, rr, pr)
    /\ lastDone' = [done |-> TRUE, uid |-> uid, role |-> rr, perms |-> pr]
    /\ refresh' = IF refresh.promise = "none" THEN refresh
                  ELSE [refresh EXCEPT !.promise = IF aw THEN "resolved" ELSE @,
                                       !.completed = 1]
    /\ attempted' = (attempted \/ uid = user.id)
    /\ UNCHANGED <<calls, refreshed>>

(***************************************************************************)
(* A consumer calls refreshPermissions() of the last render.               *)
(***************************************************************************)
RefreshPermissionsCore ==
    /\ Quiescent
    /\ PendingCount < MaxPending
    /\ SetCells(RefreshOutcome.st)
    /\ pending' = IF RefreshOutcome.dispatch
                  THEN pending (+) SetToBag({user.id})
                  ELSE pending
    /\ UNCHANGED <<authVars, effectDeps, navVars, probe>>

RefreshPermissions ==
    /\ RefreshPermissionsCore
    /\ refresh' =
          IF user = NoUser THEN NoRefresh
          ELSE [promise |-> IF RefreshOutcome.dispatch THEN "pending" ELSE "resolved",
                awaits |-> IF RefreshOutcome.dispatch THEN user.id ELSE "none",
                dispatched |-> IF RefreshOutcome.dispatch THEN 1 ELSE 0,
                completed |-> 0,
                qualifies |-> ~authLoading /\ hasFetched /\ pending = EmptyBag]
    /\ refreshed' = TRUE
    /\ calls' = 0
    /\ lastDone' = NotDone
    /\ UNCHANGED attempted

Next ==
    \/ RunEffects
    \/ \E u \in NextHandles, l \in BOOLEAN : AuthChange(u, l)
    \/ \E uid \in BagToSet(pending) : \E aw \in AwaitChoices(uid) :
          \E rr \in RoleResults, pr \in PermResults : FetchComplete(uid, rr, pr, aw)
    \/ RefreshPermissions

Spec == Init /\ [][Next]_vars

(***************************************************************************)
(* The runs in which no consumer calls refreshPermissions.                 *)
(***************************************************************************)
IdentityNext ==
    \/ RunEffects
    \/ \E u \in NextHandles, l \in BOOLEAN : AuthChange(u, l)
    \/ \E uid \in BagToSet(pending), rr \in RoleResults, pr \in PermResults :
          FetchComplete(uid, rr, pr, FALSE)

IdentitySpec == Init /\ [][IdentityNext]_vars

(***************************************************************************)
(* The same steps under the scheduling the runtime gives: effects left by  *)
(* a render are run, and a dispatched fetch settles.  What the Identity    *)
(* Source and the consumers do is left free.                               *)
(***************************************************************************)
EffectsRun == RunEffectsCore /\ UNCHANGED historyVars

FetchSettles ==
    \E uid \in BagToSet(pending), rr \in RoleResults, pr \in PermResults :
        FetchCompleteCore(uid, rr, pr) /\ UNCHANGED historyVars

OutsideStep ==
    \/ \E u \in NextHandles, l \in BOOLEAN : AuthChangeCore(u, l) /\ UNCHANGED historyVars
    \/ RefreshPermissionsCore /\ UNCHANGED historyVars

LiveNext == EffectsRun \/ FetchSettles \/ OutsideStep

LiveSpec == Init /\ [][LiveNext]_vars /\ WF_vars(EffectsRun) /\ WF_vars(FetchSettles)

(***************************************************************************)
(* The router: a navigation to a location, a <Navigate> element taking     *)
(* effect, and the lazy module of the page on screen resolving.  Whether   *)
(* the module of the page navigated to was resolved by an earlier visit    *)
(* is an input (cached).                                                   *)
(***************************************************************************)
HasPage(p) == RouteElement(p).page # "none"

NavigateTo(p, cached) ==
    /\ Quiescent
    /\ p # path
    /\ cached => HasPage(p)
    /\ path' = p
    /\ moduleLoaded' = cached
    /\ UNCHANGED <<coreVars, historyVars, probe>>

FollowRedirect(cached) ==
    /\ Quiescent
    /\ View.state \in {"LoginRedirect", "Redirect"}
    /\ cached => HasPage(View.to)
    /\ path' = View.to
    /\ moduleLoaded' = cached
    /\ UNCHANGED <<coreVars, historyVars, probe>>

ModuleLoaded ==
    /\ Quiescent
    /\ View.state = "ContentPending"
    /\ moduleLoaded' = TRUE
    /\ UNCHANGED <<path, coreVars, historyVars, probe>>

NavInit ==
    /\ InitCore
    /\ InitHistory
    /\ path \in NavPaths
    /\ moduleLoaded = FALSE
    /\ probe = NoProbe

NavNext ==
    \/ RunEffectsCore /\ UNCHANGED historyVars
    \/ \E u \in NextHandles, l \in BOOLEAN : AuthChangeCore(u, l) /\ UNCHANGED historyVars
    \/ \E uid \in BagToSet(pending), rr \in RoleResults, pr \in PermResults :
          FetchCompleteCore(uid, rr, pr) /\ UNCHANGED historyVars
    \/ RefreshPermissionsCore /\ UNCHANGED historyVars
    \/ \E p \in NavPaths, cached \in BOOLEAN : NavigateTo(p, cached)
    \/ \E cached \in BOOLEAN : FollowRedirect(cached)
    \/ ModuleLoaded

NavSpec == NavInit /\ [][NavNext]_vars

(***************************************************************************)
(* hasPageAccess as a function of its inputs: the provider after a fetch   *)
(* that returned any role and any permission list, asked for any route.    *)
(***************************************************************************)
AccessRoutes == {DashboardRoute, SettingsRoute, <<Slash, "settings", Slash>>}
AccessPermLists ==
    PermLists \cup
    {<<PermRec(1, SettingsRoute, TRUE, FALSE, FALSE),
       PermRec(2, SettingsRoute, FALSE, TRUE, TRUE)>>} \cup
    {<<PermRec(1, r, a, m, u)>> : r \in AccessRoutes, a \in BOOLEAN, m \in BOOLEAN, u \in BOOLEAN}

AccessInit ==
    /\ user = [id |-> "A", ref |-> 0]
    /\ authLoading = FALSE
    /\ userRole \in RoleValues
    /\ permissions \in AccessPermLists
    /\ loading = FALSE
    /\ hasFetched = TRUE
    /\ effectDeps = [mounted |-> TRUE, user |-> [id |-> "A", ref |-> 0],
                     authLoading |-> FALSE, hasFetched |-> TRUE]
    /\ pending = EmptyBag
    /\ InitHistory
    /\ InitNav
    /\ probe = NoProbe

Ask(route) ==
    /\ probe' = [asked |-> TRUE, route |-> route, result |-> HasPageAccess(route)]
    /\ UNCHANGED <<coreVars, historyVars, navVars>>

AccessNext == \E route \in RouteStrings : Ask(route)

AccessSpec == AccessInit /\ [][AccessNext]_vars

(***************************************************************************)
(* Properties of the route guards (NavSpec).                               *)
(***************************************************************************)
GuardedPath(p) == p \notin {StickyRoute, AuthRoutePath}
ContentStates == {"AccessPending", "AccessDenied", "ContentPending", "ContentReady"}

\* C1: on every path but /sticky-header-test and /auth, the unknown paths
\* included, no page content and no frame is on screen while identity
\* resolution is loading or the user is null; with loading false and the user
\* null the screen is the redirect to /auth (at the root path: the redirect to
\* /dashboard, whose screen is the redirect to /auth), never ContentReady.
C1_GuardedNeedsUser ==
    GuardedPath(path) =>
        /\ (authLoading \/ user = NoUser) =>
               /\ View.page = "none"
               /\ ~View.frame
               /\ View.state \notin ContentStates
        /\ (~authLoading /\ user = NoUser) =>
               LET landing == IF path = RootRoute /\ View.state = "Redirect"
                              THEN ViewAt(View.to) ELSE View
               IN landing.state = "LoginRedirect" /\ landing.to = AuthRoutePath

C1_Witness ==
    /\ path = UnknownRoute
    /\ user = NoUser
    /\ ~authLoading
    /\ View.state = "LoginRedirect"
    /\ View.to = AuthRoutePath

(***************************************************************************)
(* Properties of hasPageAccess (AccessSpec).                               *)
(***************************************************************************)
UniqueRoutes(perms) ==
    \A i, j \in 1..Len(perms) : perms[i].route = perms[j].route => i = j

RecordsFor(perms, route) ==
    {perms[i] : i \in {k \in 1..Len(perms) : perms[k].route = route}}

Last(route) == route[Len(route)]

\* C2: with at most one record per route, hasPageAccess(route) is true when
\* no record's route is the normalized route, and otherwise the record's
\* admin_access for role admin, manager_access for role manager and
\* user_access for every other role value.
C2_AccessByRole ==
    (probe.asked /\ UniqueRoutes(permissions)) =>
        LET recs == RecordsFor(permissions, NormalizeRoute(probe.route))
        IN IF recs = {}
           THEN probe.result = TRUE
           ELSE \A r \in recs :
                   probe.result = (IF userRole = "admin" THEN r.admin_access
                                   ELSE IF userRole = "manager" THEN r.manager_access
                                   ELSE r.user_access)

C2_Witness ==
    /\ probe.asked
    /\ userRole = "guest"
    /\ probe.route = <<Slash, "settings", Slash>>
    /\ permissions = <<PermRec(1, SettingsRoute, TRUE, TRUE, FALSE)>>
    /\ probe.result = FALSE

\* C3 as claimed: "/", "/dashboard" and "/dashboard/" are answered alike,
\* and for every route r other than "/", r + "/" is answered as r is.
C3_Original ==
    probe.asked =>
        /\ probe.route \in {RootRoute, DashboardRoute, Append(DashboardRoute, Slash)}
              => probe.result = HasPageAccess(DashboardRoute)
        /\ probe.route # RootRoute
              => HasPageAccess(Append(probe.route, Slash)) = probe.result

\* C3, amended: "/", "/dashboard" and "/dashboard/" are answered alike, and
\* for every route r that does not end in a slash, r + "/" is answered as
\* r is.
C3_TrailingSlash ==
    probe.asked =>
        /\ probe.route \in {RootRoute, DashboardRoute, Append(DashboardRoute, Slash)}
              => probe.result = HasPageAccess(DashboardRoute)
        /\ Last(probe.route) # Slash
              => HasPageAccess(Append(probe.route, Slash)) = probe.result

C3_Witness ==
    /\ probe.asked
    /\ probe.route = SettingsRoute
    /\ userRole = "manager"
    /\ permissions = <<PermRec(1, SettingsRoute, TRUE, FALSE, TRUE)>>
    /\ probe.result = FALSE
    /\ HasPageAccess(Append(probe.route, Slash)) = FALSE

(***************************************************************************)
(* Properties of the Permissions Resolver (Spec).                          *)
(***************************************************************************)
IsReset == userRole = "user" /\ permissions = <<>> /\ ~loading /\ ~hasFetched

\* C4 as claimed: while the identity id stays the same and refreshPermissions
\* is not called, no more than one fetch (one role lookup and one permission
\* listing) is issued for it, exactly one once the provider has come to
\* rest with auth loading false, and fetched is true after it settled.
C4_Original ==
    (user # NoUser /\ ~refreshed) =>
        /\ calls <= 1
        /\ (Quiescent /\ ~authLoading) => calls = 1
        /\ (Quiescent /\ ~authLoading /\ PendingFor(user.id) = 0) => hasFetched

\* C5 as claimed: the promise of refreshPermissions() is resolved only after
\* a fetch issued on behalf of the call has settled.
C5_Original == refresh.promise = "resolved" => refresh.completed = 1

\* C6: a refreshPermissions() call made with a user, auth loading false,
\* fetched true and no fetch pending causes one fetch to be issued, never
\* two, and not zero once the provider has come to rest.
C6_RefreshFetchesOnce ==
    refresh.qualifies =>
        /\ refresh.dispatched <= 1
        /\ Quiescent => refresh.dispatched = 1

C6_Witness ==
    /\ refresh.qualifies
    /\ Quiescent
    /\ refresh.dispatched = 1
    /\ refresh.completed = 1
    /\ hasFetched

\* C7 as claimed: while identity resolution is loading or a fetch is
\* outstanding, the loading value of the context is true.
C7_Original == (authLoading \/ PendingCount > 0) => ExposedLoading

\* C8 as claimed: once the effects have run for a null identity with auth
\* loading false, the cells are reset and stay reset while the identity
\* stays null.
C8_Original ==
    (user = NoUser /\ ~authLoading /\ effectDeps.mounted
       /\ effectDeps.user = NoUser /\ ~effectDeps.authLoading) => IsReset

\* C9 as claimed: after a fetch settles, role is the returned role when the
\* lookup succeeded with a non-empty value and user otherwise, permissions is
\* the returned list when the listing succeeded and [] otherwise, whatever
\* happened to the other call (an error result or a rejection).
ExpectedRole(rr) == IF rr.kind = "ok" /\ rr.data # "" THEN rr.data ELSE "user"
ExpectedPermissions(pr) == IF pr.kind = "ok" THEN pr.data ELSE <<>>

C9_Original ==
    lastDone.done =>
        /\ userRole = ExpectedRole(lastDone.role)
        /\ permissions = ExpectedPermissions(lastDone.perms)

\* C10 as claimed: after a fetch issued for the current identity settles,
\* whatever its outcome, fetched is true.
C10_Original == (lastDone.done /\ lastDone.uid = user.id) => hasFetched

\* C11: when identity resolution completes and the identity changes and the
\* refreshPermissions calls come to an end, every dispatched fetch settling
\* (resolved, error result or rejection), the loading value of the context
\* becomes false and stays false.
C11_LoadingSettles ==
    (<>[][~OutsideStep]_vars /\ <>[]~authLoading) => <>[]~ExposedLoading

\* A signed-in user whose only fetch was rejected: nothing is pending, the
\* effects have run, fetched is still false and loading is false.
C11_Witness ==
    /\ user # NoUser
    /\ ~authLoading
    /\ PendingCount = 0
    /\ Quiescent
    /\ ~hasFetched
    /\ ~ExposedLoading

\* C12: at /auth the login page is on screen only when identity resolution
\* is not loading and the user is null; while it is loading only the
\* full-screen wait indicator is; with a user the screen is a redirect to
\* the root route that replaces the history entry.
C12_AuthRouteGuard ==
    path = AuthRoutePath =>
        /\ View.state \in {"ContentPending", "ContentReady"} \/ View.page = "Auth"
              => ~authLoading /\ user = NoUser
        /\ authLoading =>
              /\ View.state = "AuthPending"
              /\ View.fullScreenWait
              /\ View.page = "none"
              /\ ~View.frame
        /\ (~authLoading /\ user # NoUser) =>
              /\ View.state = "Redirect"
              /\ View.to = RootRoute
              /\ View.replace
              /\ View.page = "none"

C12_Witness ==
    /\ path = AuthRoutePath
    /\ ~authLoading
    /\ user # NoUser
    /\ hasFetched
    /\ View.state = "Redirect"
    /\ View.to = RootRoute

\* C13 as claimed: in a run without a refreshPermissions call, at most one
\* fetch is outstanding for an identity id at any time.
C13_Original == \A uid \in UserIds : PendingFor(uid) <= 1

\* C14: the results of a fetch that settles without a rejection are adopted
\* whatever identity it was issued for, and no fetch is issued afterwards to
\* correct them.  In particular the run is reachable in which the identity
\* changes from A to B while A's fetch is pending, B's fetch settles first,
\* A's fetch settles last, and the provider rests with identity B, fetched
\* true and the role resolved for A.
C14_StaleOverwrite ==
    (lastDone.done /\ ~Rejected(lastDone.role, lastDone.perms)) =>
        /\ userRole = HandleRole(lastDone.role)
        /\ permissions = HandlePermissions(lastDone.perms)
        /\ hasFetched
        /\ ~EffectsOutcome.dispatch

C14_Witness ==
    /\ user.id = "B"
    /\ ~authLoading
    /\ lastDone.done
    /\ lastDone.uid = "A"
    /\ lastDone.role = [kind |-> "ok", data |-> "admin"]
    /\ userRole = "admin"
    /\ hasFetched
    /\ calls = 1
    /\ ~refreshed
    /\ pending = EmptyBag
    /\ Quiescent

\* A signed-in manager, nothing loading, at a route behind the
\* authenticated guard that has a PagePermission record.
ManagerAtRecordedRoute ==
    /\ ~authLoading
    /\ user # NoUser
    /\ ~loading
    /\ userRole = "manager"
    /\ RouteElement(path).guard = "protected"
    /\ FindPermission(permissions, NormalizeRoute(path)) # 0

RecordAtPath == permissions[FindPermission(permissions, NormalizeRoute(path))]

\* C15 as claimed: a manager at a guarded route whose record has
\* admin_access = false is at AccessDenied, whatever manager_access and
\* user_access are.
C15_Original ==
    (ManagerAtRecordedRoute /\ ~RecordAtPath.admin_access)
        => View.state = "AccessDenied"

\* C15, amended: a manager at a guarded route whose record has
\* manager_access = false is at AccessDenied, whatever admin_access and
\* user_access are, and the frame is mounted.
C15_ManagerDenied ==
    (ManagerAtRecordedRoute /\ ~RecordAtPath.manager_access)
        => View.state = "AccessDenied" /\ View.frame /\ View.page = "none"

C15_Witness ==
    /\ ManagerAtRecordedRoute
    /\ path = SettingsRoute
    /\ RecordAtPath = PermRec(1, SettingsRoute, TRUE, FALSE, FALSE)
    /\ View.state = "AccessDenied"

\* C16: at every route behind the authenticated guard, with identity
\* resolution complete and a user present, the screen is one of
\* AccessPending, AccessDenied, ContentPending, ContentReady with the frame
\* mounted and no full-screen wait indicator; at the root route this holds
\* of the route its redirect leads to.
C16_FrameMounted ==
    (~authLoading /\ user # NoUser) =>
        /\ RouteElement(path).guard = "protected" =>
              /\ View.state \in ContentStates
              /\ View.frame
              /\ ~View.fullScreenWait
        /\ path = RootRoute =>
              /\ ViewAt(View.to).state \in ContentStates
              /\ ViewAt(View.to).frame
              /\ ~ViewAt(View.to).fullScreenWait

C16_Witness ==
    /\ ~authLoading
    /\ user # NoUser
    /\ ~loading
    /\ path = AccountsRoute
    /\ ~moduleLoaded
    /\ View.state = "ContentPending"
    /\ View.frame

\* The identity id changed to a non-null id in the last render, auth
\* loading false, and the effects of that render have not run yet.
NewIdentityRendered ==
    /\ effectDeps.mounted
    /\ effectDeps.user.id # user.id
    /\ user # NoUser
    /\ ~authLoading

\* C17 as claimed: the fetch effect's first run for a new identity id sees
\* fetched = false (the reset effect has run before it), and fetched is
\* false whenever the effects set loading to true and issue a fetch.
C17_Original ==
    /\ NewIdentityRendered => ~Closure.hasFetched
    /\ (EffectsDue /\ EffectsOutcome.dispatch) => ~hasFetched

\* C18 as claimed: whenever the identity is non-null and the loading value
\* of the context is false, a fetch for the current identity id has settled.
C18_Original == (user # NoUser /\ ~ExposedLoading) => attempted

\* The listing of the last settled fetch failed: an error result, or a
\* rejection of either call.
ListingFailed ==
    /\ lastDone.done
    /\ lastDone.perms.kind = "error" \/ Rejected(lastDone.role, lastDone.perms)

\* C19: with an empty permissions list hasPageAccess is true for every
\* route, whatever the role; the list is empty after a failed listing, so
\* every route is then open to every role.
C19_EmptyAllowsAll ==
    /\ permissions = <<>> => \A r \in RouteStrings \cup NavPaths : HasPageAccess(r)
    /\ ListingFailed =>
          /\ permissions = <<>>
          /\ \A r \in RouteStrings \cup NavPaths : HasPageAccess(r)

C19_Witness ==
    /\ ListingFailed
    /\ lastDone.perms.kind = "error"
    /\ user # NoUser
    /\ lastDone.uid = user.id
    /\ userRole = "manager"
    /\ permissions = <<>>
    /\ HasPageAccess(SettingsRoute)

IsRedirect(v) == v.state \in {"LoginRedirect", "Redirect"}

\* The number of redirects followed from location p in the current state
\* until a screen that is no redirect, counted up to 3.
RedirectsFrom(p) ==
    LET v0 == ViewAt(p)
    IN IF ~IsRedirect(v0) THEN 0
       ELSE LET v1 == ViewAt(v0.to)
            IN IF ~IsRedirect(v1) THEN 1
               ELSE IF ~IsRedirect(ViewAt(v1.to)) THEN 2 ELSE 3

\* C20: with identity resolution complete, user present or null, the
\* redirects from any path end after at most two at a path whose screen is
\* no redirect.
C20_RedirectsEnd ==
    ~authLoading => \A p \in NavPaths : RedirectsFrom(p) <= 2

C20_Witness ==
    /\ ~authLoading
    /\ user = NoUser
    /\ path = AuthRoutePath
    /\ ~IsRedirect(View)
    /\ RedirectsFrom(RootRoute) = 2
    /\ RedirectsFrom(DashboardRoute) = 1

=============================================================================
